---- MODULE Spec2Model ----
(***************************************************************************)
(* Model of the security decision engine of the file-management backend:   *)
(* SecurityService (backend/services/security_service.py) and the upload   *)
(* and security endpoints of backend/app.py that call it.                  *)
(*                                                                         *)
(* Time is counted in minutes.  A timestamp is stored, as in the code, in  *)
(* its ISO-8601 text form and parsed back when a window is evaluated.      *)
(* risk_score is an IEEE-754 double; it is kept as an exact integer count  *)
(* of 2^-55 in two 28-bit limbs, and additions round to 53 significant     *)
(* bits (round half to even) exactly as the float additions of the code.   *)
(***************************************************************************)
EXTENDS Integers, Sequences, FiniteSets, TLC

VARIABLES
    now,              \* datetime.utcnow(), in minutes
    access_logs,      \* SecurityService.access_logs: user -> list of activity logs
    threat_database,  \* SecurityService.threat_database: threat_id -> record
    alerts,           \* alerts emitted by _send_security_alert, in order
    ret,              \* what the last call on the service returned
    windows,          \* the windowed queries made by the last call
    appended,         \* history: per user, every event ever appended, in order
    up_id,            \* number of the upload request being handled
    up_pc,            \* position of the upload handler of app.py
    up_file,          \* request.files.get('file') of the upload in progress
    up_analysis,      \* ai_analysis of the upload in progress
    up_verdict,       \* security_result of the upload in progress
    up_status,        \* HTTP status the upload handler answered with
    up_trace,         \* history: the collaborators the handler called, in order
    storage,          \* the requests whose file file_service.upload_file wrote
    calls,            \* per thread: position and locals of its monitor_user_activity call
    checked           \* history: the (file, analysis, verdict) of every check_file_security call

vars == <<now, access_logs, threat_database, alerts, ret, windows, appended,
          up_id, up_pc, up_file, up_analysis, up_verdict, up_status, up_trace, storage,
          calls, checked>>

svcVars == <<now, access_logs, threat_database, alerts, windows, appended>>
upVars == <<up_id, up_pc, up_file, up_analysis, up_verdict, up_status, up_trace, storage>>
callVars == <<calls, checked>>

(***************************************************************************)
(* Bounds of the model                                                     *)
(***************************************************************************)
\* the code keeps the last 1000 entries per user; the model keeps this many
RetentionCap == 5
\* appends per user explored
MaxAppends == 6
\* upload requests explored
MaxUploads == 2
\* the clock starts here (05:45)
StartTime == 345
\* minutes the clock may advance, in runs that step by minutes
MaxElapsed == 12
\* minutes the clock may advance, in runs that step by half hours
MaxElapsedLong == 61

(***************************************************************************)
(* IEEE-754 doubles in [0, 4): value = (hi * 2^28 + lo) * 2^-55            *)
(***************************************************************************)
Limb == 16384 * 16384

\* the doubles of the literals 0.0, 0.2, 0.3, 0.4, 0.7, 0.9 and 1.0 of the code
\* (0.2 = 0x1.999999999999ap-3, 0.3 = 0x1.3333333333333p-2,
\*  0.4 = 0x1.999999999999ap-2, 0.7 = 0x1.6666666666666p-1,
\*  0.9 = 0x1.ccccccccccccdp-1) and of 0.5, 1.2, 1.4 and 1.6, which the
\* additions of the code can produce (1.2 = 0x1.3333333333333p+0,
\* 1.4 = 0x1.6666666666666p+0, 1.6 = 0x1.999999999999ap+0)
F00 == [hi |-> 0, lo |-> 0]
F02 == [hi |-> 26843545, lo |-> 161061274]
F03 == [hi |-> 40265318, lo |-> 107374182]
F04 == [hi |-> 53687091, lo |-> 53687092]
F05 == [hi |-> 67108864, lo |-> 0]
F07 == [hi |-> 93952409, lo |-> 161061272]
F09 == [hi |-> 120795955, lo |-> 53687092]
F10 == [hi |-> 134217728, lo |-> 0]
F12 == [hi |-> 161061273, lo |-> 161061272]
F14 == [hi |-> 187904819, lo |-> 53687088]
F16 == [hi |-> 214748364, lo |-> 214748368]

\* the spacing of doubles in the binade of a value whose high limb is hi
Ulp(hi) ==
    IF hi >= 268435456 THEN 16
    ELSE IF hi >= 134217728 THEN 8
    ELSE IF hi >= 67108864 THEN 4
    ELSE IF hi >= 33554432 THEN 2
    ELSE 1

\* a + b on doubles: the exact sum rounded to nearest, ties to even
FAdd(a, b) ==
    LET slo == a.lo + b.lo
        lo0 == slo % Limb
        hi0 == a.hi + b.hi + (slo \div Limb)
        u == Ulp(hi0)
        r == lo0 % u
        down == lo0 - r
        up == (2 * r > u) \/ (2 * r = u /\ (down \div u) % 2 = 1)
        lo1 == IF up THEN down + u ELSE down
    IN  [hi |-> hi0 + (lo1 \div Limb), lo |-> lo1 % Limb]

\* a >= b on doubles
FGe(a, b) == a.hi > b.hi \/ (a.hi = b.hi /\ a.lo >= b.lo)

(***************************************************************************)
(* Uploaded files (werkzeug FileStorage) and content-analysis results      *)
(***************************************************************************)
NoneType == "<None>"

\* a filename is None or a string, kept as its sequence of characters
Name(s) == [present |-> TRUE, chars |-> s]
NoName == [present |-> FALSE, chars |-> <<>>]

FileNames ==
    { NoName, Name(<<>>), Name(<<"r", "e", "a", "d", "m", "e">>),
      Name(<<"a", ".", "t", "x", "t">>), Name(<<"a", ".", "E", "X", "E">>),
      Name(<<"e", "x", "e", "c", ".", "p", "d", "f">>) }

ContentTypes ==
    { NoneType, "text/plain", "application/octet-stream",
      "application/octet-stream; charset=binary" }

\* 100 * 1024 * 1024
MaxFileSize == 104857600

FileSizes == { 0, MaxFileSize, MaxFileSize + 1 }

\* readable = FALSE: seek/tell on the stream raise
Files ==
    [ readable : BOOLEAN, size : FileSizes, filename : FileNames,
      content_type : ContentTypes ]

\* str.lower() on the characters that occur
LowerChar(c) ==
    CASE c = "E" -> "e"
      [] c = "X" -> "x"
      [] OTHER -> c

Lower(s) == [i \in 1..Len(s) |-> LowerChar(s[i])]

\* sub in s, for strings
Contains(s, sub) ==
    \E i \in 0..(Len(s) - Len(sub)) :
        \A j \in 1..Len(sub) : s[i + j] = sub[j]

\* 'application/octet-stream' in content_type
HasOctetStream(ct) ==
    ct \in { "application/octet-stream",
             "application/octet-stream; charset=binary" }

\* bool(x) of a str-or-None filename
Truthy(fname) == fname.present /\ Len(fname.chars) > 0

ThreatLevels == { "low", "medium", "high", "critical" }
SensitiveLists == { <<>>, <<"SSN-123">>, <<"a", "b">> }
MalwareLists == { <<>>, <<"trojan">> }
ComplianceLists == { <<>>, <<"GDPR">> }

\* ai_analysis: None, {} or a dict whose 'security_analysis' and
\* 'content_analysis' are each missing, None ("null") or a dict
NoAnalysis ==
    [ kind |-> "none", sec |-> "missing", con |-> "missing",
      threat_level |-> "low", malware_indicators |-> <<>>,
      compliance_issues |-> <<>>, sensitive_data_detected |-> <<>> ]

EmptyAnalysis == [NoAnalysis EXCEPT !.kind = "empty"]

DictAnalyses ==
    { [NoAnalysis EXCEPT !.kind = "dict", !.sec = s, !.con = c] :
        s \in {"missing", "null"}, c \in {"missing", "null"} }
    \cup
    { [NoAnalysis EXCEPT !.kind = "dict", !.sec = "dict", !.con = c,
                         !.threat_level = t, !.malware_indicators = m,
                         !.compliance_issues = ci] :
        c \in {"missing", "null"}, t \in ThreatLevels, m \in MalwareLists,
        ci \in ComplianceLists }
    \cup
    { [NoAnalysis EXCEPT !.kind = "dict", !.sec = s, !.con = "dict",
                         !.sensitive_data_detected = sd] :
        s \in {"missing", "null"}, sd \in SensitiveLists }
    \cup
    { [ kind |-> "dict", sec |-> "dict", con |-> "dict", threat_level |-> t,
        malware_indicators |-> m, compliance_issues |-> ci,
        sensitive_data_detected |-> sd ] :
        t \in ThreatLevels, m \in MalwareLists, ci \in ComplianceLists,
        sd \in SensitiveLists }

Analyses == { NoAnalysis, EmptyAnalysis } \cup DictAnalyses

(***************************************************************************)
(* SecurityService._perform_file_security_checks                           *)
(***************************************************************************)
\* the statements of the try block raise: seek/tell on an unreadable
\* stream, None.lower(), or 'application/octet-stream' not in None
FileChecksRaise(file) ==
    \/ ~file.readable
    \/ ~file.filename.present
    \/ /\ Contains(Lower(file.filename.chars), <<"e", "x", "e">>)
       /\ file.content_type = NoneType

_perform_file_security_checks(file) ==
    IF FileChecksRaise(file)
    THEN [ suspicious |-> TRUE, file_size_ok |-> TRUE, extension_valid |-> TRUE,
           content_type_matches |-> TRUE, error |-> TRUE ]
    ELSE
        LET big == file.size > MaxFileSize
            noext == ~Truthy(file.filename)
                        \/ ~Contains(file.filename.chars, <<".">>)
            mismatch ==
                /\ Contains(Lower(file.filename.chars), <<"e", "x", "e">>)
                /\ ~HasOctetStream(file.content_type)
        IN  [ suspicious |-> big \/ noext \/ mismatch,
              file_size_ok |-> ~big,
              extension_valid |-> ~noext,
              content_type_matches |-> ~mismatch,
              error |-> FALSE ]

(***************************************************************************)
(* SecurityService.check_file_security                                     *)
(***************************************************************************)
EncryptRec == "Consider encrypting this file"

UnsafeRecs ==
    << "File flagged for manual review",
       "Consider scanning with additional security tools",
       "Restrict access to authorized personnel only" >>

NoDetails ==
    [ suspicious |-> FALSE, file_size_ok |-> TRUE, extension_valid |-> TRUE,
      content_type_matches |-> TRUE, error |-> FALSE ]

\* variant: the evaluation starts from 0.2 once the registry holds a record
FreshResultWarm ==
    [ safe |-> TRUE,
      risk_score |-> IF threat_database = << >> THEN F00 ELSE F02,
      threats_detected |-> << >>, details |-> NoDetails,
      recommendations |-> << >>, failed |-> FALSE ]

\* the dict the function starts from
FreshResult ==
    [ safe |-> TRUE, risk_score |-> F00, threats_detected |-> <<>>,
      details |-> NoDetails, recommendations |-> <<>>, failed |-> FALSE ]

\* variant: the except branch returns a score of 0.5
FailClosedHalf ==
    [ safe |-> FALSE, risk_score |-> F05,
      threats_detected |-> << [msg |-> "Security check failed"] >>,
      details |-> [NoDetails EXCEPT !.error = TRUE],
      recommendations |-> << "Manual review required" >>, failed |-> TRUE ]

\* the dict returned by the except branch
FailClosed ==
    [ safe |-> FALSE, risk_score |-> F10,
      threats_detected |-> << [msg |-> "Security check failed"] >>,
      details |-> [NoDetails EXCEPT !.error = TRUE],
      recommendations |-> << "Manual review required" >>, failed |-> TRUE ]

\* `if ai_analysis:`
AnalysisPresent(a) == a.kind = "dict"

\* .get() on a value that is None raises inside the outer try block
AnalysisRaises(a) == AnalysisPresent(a) /\ (a.sec = "null" \/ a.con = "null")

\* variant: a medium threat level is treated as a high one
ThreatLevelRuleMedium(r, a) ==
    IF a.threat_level \in {"medium", "high", "critical"}
    THEN [r EXCEPT !.safe = FALSE, !.risk_score = F09,
                   !.threats_detected = Append(@,
                       [msg |-> "High threat level detected", level |-> a.threat_level])]
    ELSE r

ThreatLevelRule(r, a) ==
    IF a.threat_level \in {"high", "critical"}
    THEN [r EXCEPT !.safe = FALSE, !.risk_score = F09,
                   !.threats_detected = Append(@,
                       [msg |-> "High threat level detected", level |-> a.threat_level])]
    ELSE r

\* variant: sensitive data weighs 0.4 and no recommendation is given
SensitiveDataRuleHeavy(r, a) ==
    IF Len(a.sensitive_data_detected) > 0
    THEN [r EXCEPT !.risk_score = FAdd(@, F04),
                   !.threats_detected = Append(@,
                       [msg |-> "Sensitive data detected",
                        count |-> Len(a.sensitive_data_detected)])]
    ELSE r

SensitiveDataRule(r, a) ==
    IF Len(a.sensitive_data_detected) > 0
    THEN [r EXCEPT !.risk_score = FAdd(@, F03),
                   !.threats_detected = Append(@,
                       [msg |-> "Sensitive data detected",
                        count |-> Len(a.sensitive_data_detected)]),
                   !.recommendations = Append(@, EncryptRec)]
    ELSE r

\* variant: the malware rule adds to the score instead of setting it
MalwareRuleAdds(r, a) ==
    IF Len(a.malware_indicators) > 0
    THEN [r EXCEPT !.safe = FALSE, !.risk_score = FAdd(@, F10),
                   !.threats_detected = Append(@,
                       [msg |-> "Malware indicators detected"])]
    ELSE r

MalwareRule(r, a) ==
    IF Len(a.malware_indicators) > 0
    THEN [r EXCEPT !.safe = FALSE, !.risk_score = F10,
                   !.threats_detected = Append(@,
                       [msg |-> "Malware indicators detected"])]
    ELSE r

\* variant: compliance issues set the score to 0.2 instead of adding to it
ComplianceRuleResets(r, a) ==
    IF Len(a.compliance_issues) > 0
    THEN [r EXCEPT !.risk_score = F02,
                   !.threats_detected = Append(@,
                       [msg |-> "Compliance issues", issues |-> a.compliance_issues])]
    ELSE r

ComplianceRule(r, a) ==
    IF Len(a.compliance_issues) > 0
    THEN [r EXCEPT !.risk_score = FAdd(@, F02),
                   !.threats_detected = Append(@,
                       [msg |-> "Compliance issues", issues |-> a.compliance_issues])]
    ELSE r

\* variant: suspicious file characteristics weigh 0.7
FileCharacteristicsRuleHeavy(r, file) ==
    LET file_checks == _perform_file_security_checks(file)
        r1 == [r EXCEPT !.details = file_checks]
    IN  IF file_checks.suspicious
        THEN [r1 EXCEPT !.risk_score = FAdd(@, F07),
                        !.threats_detected = Append(@,
                            [msg |-> "Suspicious file characteristics detected"])]
        ELSE r1

FileCharacteristicsRule(r, file) ==
    LET file_checks == _perform_file_security_checks(file)
        r1 == [r EXCEPT !.details = file_checks]
    IN  IF file_checks.suspicious
        THEN [r1 EXCEPT !.risk_score = FAdd(@, F04),
                        !.threats_detected = Append(@,
                            [msg |-> "Suspicious file characteristics detected"])]
        ELSE r1

\* variant: the threshold comparison is strict
FinalStatusStrict(r) ==
    IF FGe(r.risk_score, F07) /\ r.risk_score # F07
    THEN [r EXCEPT !.safe = FALSE] ELSE r

FinalStatus(r) ==
    IF FGe(r.risk_score, F07) THEN [r EXCEPT !.safe = FALSE] ELSE r

\* variant: the fixed recommendations are given only from a score of 0.9
RecommendForced(r) ==
    IF ~r.safe /\ FGe(r.risk_score, F09)
    THEN [r EXCEPT !.recommendations = @ \o UnsafeRecs] ELSE r

Recommend(r) ==
    IF ~r.safe THEN [r EXCEPT !.recommendations = @ \o UnsafeRecs] ELSE r

check_file_security(file, ai_analysis) ==
    IF AnalysisRaises(ai_analysis)
    THEN FailClosed
    ELSE
        LET r0 == FreshResult
            r4 == IF AnalysisPresent(ai_analysis)
                  THEN ComplianceRule(
                           MalwareRule(
                               SensitiveDataRule(
                                   ThreatLevelRule(r0, ai_analysis),
                                   ai_analysis),
                               ai_analysis),
                           ai_analysis)
                  ELSE r0
            r5 == FileCharacteristicsRule(r4, file)
        IN  Recommend(FinalStatus(r5))

(***************************************************************************)
(* Timestamps: datetime.isoformat() and datetime.fromisoformat()           *)
(***************************************************************************)
\* 10 minutes, 1 hour and 24 hours, in minutes
TenMinutes == 10
OneHour == 60
OneDay == 1440

\* the text "DDDD-…T HH:MM": fixed-width fields, most significant first
isoformat(t) == << t \div OneDay, (t \div OneHour) % 24, t % OneHour >>

fromisoformat(s) == s[1] * OneDay + s[2] * OneHour + s[3]

\* a < b on the texts (str comparison, character by character)
StrLess(a, b) ==
    \/ a[1] < b[1]
    \/ a[1] = b[1] /\ a[2] < b[2]
    \/ a[1] = b[1] /\ a[2] = b[2] /\ a[3] < b[3]

\* datetime.utcnow().hour
HourOf(t) == (t \div OneHour) % 24

(***************************************************************************)
(* Activity ledger                                                         *)
(***************************************************************************)
Users == { "alice", "bob" }

ActivityTypes == { "login_failed", "login_success", "file_access" }

EmptyIp == ""
RealIps == << "10.0.0.1", "10.0.0.2", "10.0.0.3", "10.0.0.4" >>
IpAddresses == { NoneType, EmptyIp } \cup { RealIps[k] : k \in 1..Len(RealIps) }

\* `if a.get('ip_address')`
IpTruthy(ip) == ip # NoneType /\ ip # EmptyIp

\* the details argument: None, or a dict that may carry 'ip_address'
NoDetailsArg == [is_dict |-> FALSE, ip_address |-> NoneType]
DetailsWith(ip) == [is_dict |-> TRUE, ip_address |-> ip]

\* the activity_log dict; seq is not in the code: it numbers the appends of
\* a user so that two events with equal fields stay distinguishable
ActivityLog(user_id, activity_type, current_time, details, n) ==
    [ user_id |-> user_id, activity_type |-> activity_type,
      timestamp |-> isoformat(current_time),
      ip_address |-> details.ip_address, seq |-> n ]

\* variant: one list shared by all users
UserLogsShared(logs, user_id) == logs["alice"] \o logs["bob"]

\* access_logs.get(user_id, [])
UserLogs(logs, user_id) == logs[user_id]

\* SecurityService._get_recent_activities at time t
\* (minutes = 0 / hours = 0 stand for None)
_get_recent_activities(logs, user_id, minutes, hours, t) ==
    LET cutoff_time ==
            IF minutes # 0 THEN t - minutes
            ELSE IF hours # 0 THEN t - hours * OneHour
            ELSE t - OneDay
        Recent(log) == fromisoformat(log.timestamp) >= cutoff_time
    IN  SelectSeq(UserLogs(logs, user_id), Recent)

\* variant: every failed login of the user counts, however old
_get_failed_login_attempts_ever(logs, user_id, hours, t) ==
    LET IsFailed(a) == a.activity_type = "login_failed"
    IN  SelectSeq(UserLogs(logs, user_id), IsFailed)

\* SecurityService._get_failed_login_attempts
_get_failed_login_attempts(logs, user_id, hours, t) ==
    LET IsFailed(a) == a.activity_type = "login_failed"
    IN  SelectSeq(_get_recent_activities(logs, user_id, 0, hours, t), IsFailed)

\* more than this many file accesses in 10 minutes is rapid access
\* (the code uses 20)
RapidAccessLimit == 3
\* more than this many distinct addresses in 10 minutes
MaxRecentIps == 3
\* self.max_login_attempts
max_login_attempts == 5

Finding(type, severity, evidence) ==
    [type |-> type, severity |-> severity, evidence |-> evidence]

\* variant: the finding is raised on reaching the limit, not on passing it
RapidFileAccessRuleEarly(recent_activities) ==
    LET IsFileAccess(a) == a.activity_type = "file_access"
        file_access_activities == SelectSeq(recent_activities, IsFileAccess)
    IN  IF Len(file_access_activities) >= RapidAccessLimit
        THEN << Finding("rapid_file_access", "medium", Len(file_access_activities)) >>
        ELSE << >>

RapidFileAccessRule(recent_activities) ==
    LET IsFileAccess(a) == a.activity_type = "file_access"
        file_access_activities == SelectSeq(recent_activities, IsFileAccess)
    IN  IF Len(file_access_activities) > RapidAccessLimit
        THEN << Finding("rapid_file_access", "medium", Len(file_access_activities)) >>
        ELSE << >>

\* variant: events without an address count as one more address
MultipleIpsRuleAll(recent_activities) ==
    LET recent_ips ==
            { recent_activities[i].ip_address : i \in 1..Len(recent_activities) }
    IN  IF Cardinality(recent_ips) > MaxRecentIps
        THEN << Finding("multiple_ips", "high", Cardinality(recent_ips)) >>
        ELSE << >>

MultipleIpsRule(recent_activities) ==
    LET recent_ips ==
            { recent_activities[i].ip_address : i \in
                { j \in 1..Len(recent_activities) :
                    IpTruthy(recent_activities[j].ip_address) } }
    IN  IF Cardinality(recent_ips) > MaxRecentIps
        THEN << Finding("multiple_ips", "high", Cardinality(recent_ips)) >>
        ELSE << >>

UnusualTimeRule(t) ==
    LET current_hour == HourOf(t)
    IN  IF current_hour < 6 \/ current_hour > 23
        THEN << Finding("unusual_time_access", "low", current_hour) >>
        ELSE << >>

\* SecurityService._detect_suspicious_patterns at time t
_detect_suspicious_patterns(logs, user_id, t) ==
    LET recent_activities == _get_recent_activities(logs, user_id, TenMinutes, 0, t)
    IN  RapidFileAccessRule(recent_activities)
            \o MultipleIpsRule(recent_activities)
            \o UnusualTimeRule(t)

(***************************************************************************)
(* Threat registry and alerts: SecurityService._handle_suspicious_activity *)
(***************************************************************************)
\* hashlib.md5(f"{user_id}_{type}_{utcnow()}"): one id per distinct text
ThreatId(user_id, type, t) == << user_id, type, t >>

ThreatRecord(user_id, activity, t) ==
    [ user_id |-> user_id, activity |-> activity,
      timestamp |-> isoformat(t), status |-> "active" ]

\* threat_database[threat_id] = record
DbPut(db, id, rec) ==
    [ k \in DOMAIN db \cup {id} |-> IF k = id THEN rec ELSE db[k] ]

RECURSIVE StoreThreats(_, _, _, _)
StoreThreats(db, user_id, suspicious_activities, t) ==
    IF suspicious_activities = << >>
    THEN db
    ELSE LET activity == Head(suspicious_activities)
         IN  StoreThreats(
                 DbPut(db, ThreatId(user_id, activity.type, t),
                       ThreatRecord(user_id, activity, t)),
                 user_id, Tail(suspicious_activities), t)

\* a failure inside the loop of _handle_suspicious_activity: none (at = 0),
\* or an exception while finding number `at` is being stored ("store": the
\* log call, the id or the assignment raises) or alerted ("alert":
\* _send_security_alert raises, which only a high finding can reach)
NoFailure == [at |-> 0, stage |-> "none"]

Failures(suspicious_activities) ==
    { NoFailure }
    \cup { [at |-> i, stage |-> "store"] : i \in 1..Len(suspicious_activities) }
    \cup { [at |-> i, stage |-> "alert"] :
             i \in { j \in 1..Len(suspicious_activities) :
                       suspicious_activities[j].severity = "high" } }

\* the findings whose record was stored before the loop ended or was left
StoredPrefix(suspicious_activities, failure) ==
    IF failure.at = 0 THEN suspicious_activities
    ELSE IF failure.stage = "store"
         THEN SubSeq(suspicious_activities, 1, failure.at - 1)
         ELSE SubSeq(suspicious_activities, 1, failure.at)

\* the findings whose alert, if they are high, was sent
AlertedPrefix(suspicious_activities, failure) ==
    IF failure.at = 0 THEN suspicious_activities
    ELSE SubSeq(suspicious_activities, 1, failure.at - 1)

\* variant: an exception raised in the loop reaches the caller
EscalationPropagatesAlways(failure) == failure.at # 0

\* `except Exception` of _handle_suspicious_activity logs the exception and
\* returns: nothing reaches monitor_user_activity
EscalationPropagates(failure) == FALSE

\* variant: every finding is alerted, whatever its severity
AlertsForAny(user_id, suspicious_activities) ==
    [ i \in 1..Len(suspicious_activities) |->
        [user_id |-> user_id, activity |-> suspicious_activities[i]] ]

\* the alerts _send_security_alert emits for the findings, in order
AlertsFor(user_id, suspicious_activities) ==
    LET IsHigh(a) == a.severity = "high"
        high == SelectSeq(suspicious_activities, IsHigh)
    IN  [ i \in 1..Len(high) |-> [user_id |-> user_id, activity |-> high[i]] ]

(***************************************************************************)
(* Retention and the audit log                                             *)
(***************************************************************************)
\* access_logs[user_id][-1000:] when the list is longer than the cap
Trim(user_logs) ==
    IF Len(user_logs) > RetentionCap
    THEN SubSeq(user_logs, Len(user_logs) - RetentionCap + 1, Len(user_logs))
    ELSE user_logs

\* list.sort(key=timestamp, reverse=True): stable, most recent first
RECURSIVE InsertDesc(_, _)
InsertDesc(sorted, x) ==
    IF sorted = << >> THEN << x >>
    ELSE IF StrLess(Head(sorted).timestamp, x.timestamp)
         THEN << x >> \o sorted
         ELSE << Head(sorted) >> \o InsertDesc(Tail(sorted), x)

RECURSIVE SortDesc(_)
SortDesc(user_logs) ==
    IF user_logs = << >> THEN << >>
    ELSE InsertDesc(SortDesc(SubSeq(user_logs, 1, Len(user_logs) - 1)),
                    user_logs[Len(user_logs)])

\* log_entry.get('suspicious', False)
GetSuspicious(log_entry) ==
    IF "suspicious" \in DOMAIN log_entry THEN log_entry.suspicious ELSE FALSE

AuditEntry(log_entry) ==
    [ timestamp |-> log_entry.timestamp,
      activity_type |-> log_entry.activity_type,
      ip_address |-> log_entry.ip_address,
      suspicious |-> GetSuspicious(log_entry),
      seq |-> log_entry.seq ]

(***************************************************************************)
(* State after construction: SecurityService.__init__, no upload running   *)
(***************************************************************************)
NoFile ==
    [ readable |-> TRUE, size |-> 0, filename |-> NoName,
      content_type |-> NoneType ]

NoCall == [op |-> "none"]

\* the threads that may run monitor_user_activity at the same time
Threads == { 1, 2 }

\* a thread that is not inside monitor_user_activity
IdleCall == [pc |-> "idle"]

Init ==
    /\ now = StartTime
    /\ access_logs = [u \in Users |-> << >>]
    /\ threat_database = << >>
    /\ alerts = << >>
    /\ ret = NoCall
    /\ windows = << >>
    /\ appended = [u \in Users |-> << >>]
    /\ up_id = 0
    /\ up_pc = "idle"
    /\ up_file = NoFile
    /\ up_analysis = NoAnalysis
    /\ up_verdict = FreshResult
    /\ up_status = 0
    /\ up_trace = << >>
    /\ storage = {}
    /\ calls = [th \in Threads |-> IdleCall]
    /\ checked = {}

(***************************************************************************)
(* The clock                                                               *)
(***************************************************************************)
Tick(d, horizon) ==
    /\ now + d <= StartTime + horizon
    /\ now' = now + d
    /\ UNCHANGED << access_logs, threat_database, alerts, ret, windows,
                    appended >>
    /\ UNCHANGED upVars
    /\ UNCHANGED callVars

(***************************************************************************)
(* SecurityService.monitor_user_activity                                   *)
(***************************************************************************)
\* variant: a details argument that is not a dict is read as an empty one
DetailsRaiseNever(details) == FALSE

\* line 115, details.get('ip_address'): raises when details is not a dict
DetailsRaise(details) == ~details.is_dict

\* str(e) of that exception
AttributeError == "'NoneType' object has no attribute 'get'"

WindowQuery(user_id, minutes, t, result) ==
    [user_id |-> user_id, minutes |-> minutes, at |-> t, result |-> result]

\* variant: a call that detects a high-severity finding is refused: its
\* event is taken back and the call answers monitored = false
monitor_user_activity_blocking(user_id, activity_type, details, failure) ==
    /\ Len(appended[user_id]) < MaxAppends
    /\ details.is_dict
    /\ failure = NoFailure
    /\ LET activity_log ==
               ActivityLog(user_id, activity_type, now, details,
                           Len(appended[user_id]) + 1)
           logs1 == [access_logs EXCEPT ![user_id] = Append(@, activity_log)]
           suspicious_activities ==
               _detect_suspicious_patterns(logs1, user_id, now)
           blocked == \E k \in 1..Len(suspicious_activities) :
                          suspicious_activities[k].severity = "high"
       IN  /\ threat_database' =
                  StoreThreats(threat_database, user_id, suspicious_activities, now)
           /\ alerts' = alerts \o AlertsFor(user_id, suspicious_activities)
           /\ appended' = [appended EXCEPT ![user_id] = Append(@, activity_log)]
           /\ windows' = << >>
           /\ access_logs' = IF blocked THEN access_logs
                             ELSE [logs1 EXCEPT ![user_id] = Trim(@)]
           /\ ret' = [ op |-> "monitor", user_id |-> user_id,
                       well_formed |-> TRUE, monitored |-> ~blocked,
                       suspicious_activities |-> suspicious_activities,
                       event |-> activity_log, inspected |-> logs1[user_id],
                       failure |-> failure ]
    /\ UNCHANGED now
    /\ UNCHANGED upVars
    /\ UNCHANGED callVars

monitor_user_activity(user_id, activity_type, details, failure) ==
    /\ Len(appended[user_id]) < MaxAppends
    /\ IF DetailsRaise(details)
       THEN \* the outer `except` answers before anything is appended
            /\ failure = NoFailure
            /\ ret' = [ op |-> "monitor", user_id |-> user_id,
                        well_formed |-> details.is_dict,
                        monitored |-> FALSE, error |-> AttributeError ]
            /\ windows' = << >>
            /\ UNCHANGED << access_logs, threat_database, alerts, appended >>
       ELSE LET current_time == now
                activity_log ==
                    ActivityLog(user_id, activity_type, current_time, details,
                                Len(appended[user_id]) + 1)
                logs1 == [access_logs EXCEPT ![user_id] = Append(@, activity_log)]
                suspicious_activities ==
                    _detect_suspicious_patterns(logs1, user_id, now)
            IN  /\ failure \in Failures(suspicious_activities)
                /\ threat_database' =
                       StoreThreats(threat_database, user_id,
                           StoredPrefix(suspicious_activities, failure), now)
                /\ alerts' =
                       alerts \o AlertsFor(user_id,
                                     AlertedPrefix(suspicious_activities, failure))
                /\ appended' = [appended EXCEPT ![user_id] = Append(@, activity_log)]
                /\ windows' =
                       << WindowQuery(user_id, TenMinutes, now,
                              _get_recent_activities(logs1, user_id,
                                                     TenMinutes, 0, now)) >>
                /\ IF EscalationPropagates(failure)
                   THEN \* the outer `except` answers; the trim is skipped
                        /\ access_logs' = logs1
                        /\ ret' = [ op |-> "monitor", user_id |-> user_id,
                                    well_formed |-> details.is_dict,
                                    monitored |-> FALSE,
                                    error |-> "escalation failed",
                                    event |-> activity_log,
                                    failure |-> failure ]
                   ELSE /\ access_logs' = [logs1 EXCEPT ![user_id] = Trim(@)]
                        /\ ret' = [ op |-> "monitor", user_id |-> user_id,
                                    well_formed |-> details.is_dict,
                                    monitored |-> TRUE,
                                    suspicious_activities |-> suspicious_activities,
                                    event |-> activity_log,
                                    inspected |-> logs1[user_id],
                                    failure |-> failure ]
    /\ UNCHANGED now
    /\ UNCHANGED upVars
    /\ UNCHANGED callVars

(***************************************************************************)
(* SecurityService.get_user_threats                                        *)
(***************************************************************************)
ThreatEntry(type, severity, count, recommendations) ==
    [ type |-> type, severity |-> severity, count |-> count,
      recommendations |-> recommendations ]

\* variant: the brute-force entry needs more than max_login_attempts failures
UserThreatsStrict(logs, user_id, t) ==
    LET failed_logins == _get_failed_login_attempts(logs, user_id, 1, t)
    IN  IF Len(failed_logins) > max_login_attempts
        THEN << ThreatEntry("brute_force_attempt", "high", Len(failed_logins),
                    << "Account temporarily locked",
                       "Contact administrator if this was not you" >>) >>
        ELSE << >>

UserThreats(logs, user_id, t) ==
    LET recent_activities == _get_recent_activities(logs, user_id, 0, 24, t)
        suspicious_count == Len(SelectSeq(recent_activities, GetSuspicious))
        failed_logins == _get_failed_login_attempts(logs, user_id, 1, t)
    IN  (IF suspicious_count > 0
         THEN << ThreatEntry("suspicious_activity", "medium", suspicious_count,
                     << "Review recent account activity",
                        "Change password if necessary" >>) >>
         ELSE << >>)
        \o
        (IF Len(failed_logins) >= max_login_attempts
         THEN << ThreatEntry("brute_force_attempt", "high", Len(failed_logins),
                     << "Account temporarily locked",
                        "Contact administrator if this was not you" >>) >>
         ELSE << >>)

get_user_threats(user_id) ==
    /\ ret' = [ op |-> "threats", user_id |-> user_id, at |-> now,
                threats |-> UserThreats(access_logs, user_id, now) ]
    /\ windows' =
           << WindowQuery(user_id, OneDay, now,
                  _get_recent_activities(access_logs, user_id, 0, 24, now)),
              WindowQuery(user_id, OneHour, now,
                  _get_recent_activities(access_logs, user_id, 0, 1, now)) >>
    /\ UNCHANGED << now, access_logs, threat_database, alerts, appended >>
    /\ UNCHANGED upVars
    /\ UNCHANGED callVars

(***************************************************************************)
(* SecurityService.get_user_audit_log                                      *)
(***************************************************************************)
\* variant: the entries are returned in the order of the list, unsorted
get_user_audit_log_unsorted(user_id) ==
    LET user_logs == UserLogs(access_logs, user_id)
    IN  /\ ret' = [ op |-> "audit", user_id |-> user_id,
                    audit_log |-> [i \in 1..Len(user_logs) |->
                                       AuditEntry(user_logs[i])] ]
        /\ windows' = << >>
        /\ UNCHANGED << now, access_logs, threat_database, alerts, appended >>
        /\ UNCHANGED upVars
        /\ UNCHANGED callVars

get_user_audit_log(user_id) ==
    LET user_logs == SortDesc(UserLogs(access_logs, user_id))
    IN  \* user_logs is the list held by access_logs: sort() reorders it
        /\ access_logs' = [access_logs EXCEPT ![user_id] = user_logs]
        /\ ret' = [ op |-> "audit", user_id |-> user_id,
                    audit_log |-> [i \in 1..Len(user_logs) |->
                                       AuditEntry(user_logs[i])] ]
        /\ windows' = << >>
        /\ UNCHANGED << now, threat_database, alerts, appended >>
        /\ UNCHANGED upVars
        /\ UNCHANGED callVars

(***************************************************************************)
(* SecurityService.check_file_security called on its own                   *)
(***************************************************************************)
\* the arguments of the call are those drawn in the initial state
CheckUpload ==
    /\ ret.op = "input"
    /\ ret' = [ op |-> "check", file |-> ret.file, analysis |-> ret.analysis,
                verdict |-> check_file_security(ret.file, ret.analysis) ]
    /\ UNCHANGED svcVars
    /\ UNCHANGED upVars
    /\ UNCHANGED callVars

\* the same call made between operations on the ledger; the history keeps
\* the arguments, the verdict and whether the registry was empty at the call
CheckFile(file, ai_analysis) ==
    /\ LET security_result == check_file_security(file, ai_analysis)
       IN  /\ ret' = [ op |-> "check", file |-> file, analysis |-> ai_analysis,
                       verdict |-> security_result ]
           /\ checked' = checked \cup
                  { [ file |-> file, analysis |-> ai_analysis,
                      verdict |-> security_result,
                      registry_empty |-> threat_database = << >> ] }
    /\ UNCHANGED svcVars
    /\ UNCHANGED upVars
    /\ UNCHANGED calls

(***************************************************************************)
(* The upload endpoint: upload_file of app.py                              *)
(***************************************************************************)
\* `if not file`: no part named 'file', or a FileStorage without a filename
FileMissing(file) == ~Truthy(file.filename)

\* variant: the verdict is computed but never consulted
RejectUploadNever(security_result) == FALSE

\* `if not security_result['safe']`: answer 403 instead of storing
RejectUpload(security_result) == ~security_result.safe

\* request.files.get('file'), then the `if not file` test
UploadReceive(file) ==
    /\ up_pc = "idle"
    /\ up_id < MaxUploads
    /\ up_id' = up_id + 1
    /\ up_file' = file
    /\ up_analysis' = NoAnalysis
    /\ up_verdict' = FreshResult
    /\ up_trace' = << >>
    /\ IF FileMissing(file)
       THEN up_pc' = "done" /\ up_status' = 400
       ELSE up_pc' = "analyze" /\ up_status' = 0
    /\ UNCHANGED storage
    /\ UNCHANGED << svcVars, ret >>
    /\ UNCHANGED callVars

\* ai_service.analyze_file_content(file): returns an analysis or raises
UploadAnalyze(raises, ai_analysis) ==
    /\ up_pc = "analyze"
    /\ up_trace' = Append(up_trace, "analyze")
    /\ IF raises
       THEN up_pc' = "done" /\ up_status' = 500 /\ UNCHANGED up_analysis
       ELSE up_pc' = "check" /\ up_analysis' = ai_analysis /\ UNCHANGED up_status
    /\ UNCHANGED << up_id, up_file, up_verdict, storage >>
    /\ UNCHANGED << svcVars, ret >>
    /\ UNCHANGED callVars

\* security_service.check_file_security(file, ai_analysis), then the test
\* on security_result['safe']
UploadCheck ==
    /\ up_pc = "check"
    /\ LET security_result == check_file_security(up_file, up_analysis)
       IN  /\ up_verdict' = security_result
           /\ up_trace' = Append(up_trace, "check")
           /\ IF RejectUpload(security_result)
              THEN up_pc' = "done" /\ up_status' = 403
              ELSE up_pc' = "store" /\ UNCHANGED up_status
    /\ UNCHANGED << up_id, up_file, up_analysis, storage >>
    /\ UNCHANGED << svcVars, ret >>
    /\ UNCHANGED callVars

\* file_service.upload_file(file, user_id, ai_analysis): stores or raises
UploadStore(raises) ==
    /\ up_pc = "store"
    /\ up_trace' = Append(up_trace, "store")
    /\ IF raises
       THEN up_status' = 500 /\ UNCHANGED storage
       ELSE up_status' = 201 /\ storage' = storage \cup {up_id}
    /\ up_pc' = "done"
    /\ UNCHANGED << up_id, up_file, up_analysis, up_verdict >>
    /\ UNCHANGED << svcVars, ret >>
    /\ UNCHANGED callVars

\* the response is sent; the handler is free for the next request
UploadReturn ==
    /\ up_pc = "done"
    /\ up_pc' = "idle"
    /\ UNCHANGED << up_id, up_file, up_analysis, up_verdict, up_status,
                    up_trace, storage >>
    /\ UNCHANGED << svcVars, ret >>
    /\ UNCHANGED callVars

(***************************************************************************)
(* SecurityService.monitor_user_activity run by several threads: the code  *)
(* takes no lock, so another thread may run between any two statements     *)
(* that touch access_logs or threat_database                               *)
(***************************************************************************)
svcShared == << access_logs, threat_database, alerts, appended >>

\* appends of the threaded calls: enough to go two past the retention cap
MaxThreadAppends == 7

\* lines 107-119: the activity_log is built and appended
CallAppend(th, user_id, activity_type, details) ==
    /\ calls[th].pc = "idle"
    /\ details.is_dict
    /\ Len(appended[user_id]) < MaxThreadAppends
    /\ LET activity_log ==
               ActivityLog(user_id, activity_type, now, details,
                           Len(appended[user_id]) + 1)
       IN  /\ access_logs' = [access_logs EXCEPT ![user_id] = Append(@, activity_log)]
           /\ appended' = [appended EXCEPT ![user_id] = Append(@, activity_log)]
           /\ calls' = [calls EXCEPT ![th] =
                           [ pc |-> "inspect", user_id |-> user_id,
                             event |-> activity_log ]]
    /\ UNCHANGED << now, threat_database, alerts, ret, windows, checked >>
    /\ UNCHANGED upVars

\* line 122: _detect_suspicious_patterns reads the list as it is now
CallInspect(th) ==
    /\ calls[th].pc = "inspect"
    /\ LET user_id == calls[th].user_id
           suspicious_activities ==
               _detect_suspicious_patterns(access_logs, user_id, now)
       IN  calls' = [calls EXCEPT ![th] =
                        [ pc |-> IF suspicious_activities # << >>
                                 THEN "handle" ELSE "trim",
                          user_id |-> user_id, event |-> calls[th].event,
                          suspicious_activities |-> suspicious_activities,
                          inspected |-> access_logs[user_id] ]]
    /\ UNCHANGED << now, ret, windows, checked >>
    /\ UNCHANGED svcShared
    /\ UNCHANGED upVars

\* lines 124-125: _handle_suspicious_activity
CallHandle(th) ==
    /\ calls[th].pc = "handle"
    /\ threat_database' =
           StoreThreats(threat_database, calls[th].user_id,
                        calls[th].suspicious_activities, now)
    /\ alerts' = alerts \o AlertsFor(calls[th].user_id,
                                      calls[th].suspicious_activities)
    /\ calls' = [calls EXCEPT ![th].pc = "trim"]
    /\ UNCHANGED << now, access_logs, appended, ret, windows, checked >>
    /\ UNCHANGED upVars

\* lines 128-129, right-hand side: the length test and the slice [-1000:]
CallTrimRead(th) ==
    /\ calls[th].pc = "trim"
    /\ LET user_logs == access_logs[calls[th].user_id]
       IN  calls' = [calls EXCEPT ![th] =
                        IF Len(user_logs) > RetentionCap
                        THEN [ pc |-> "assign", user_id |-> calls[th].user_id,
                               event |-> calls[th].event,
                               suspicious_activities |->
                                   calls[th].suspicious_activities,
                               inspected |-> calls[th].inspected,
                               kept |-> Trim(user_logs) ]
                        ELSE [calls[th] EXCEPT !.pc = "return"]]
    /\ UNCHANGED << now, ret, windows, checked >>
    /\ UNCHANGED svcShared
    /\ UNCHANGED upVars

\* line 129, the assignment: the slice replaces the user's list
CallTrimAssign(th) ==
    /\ calls[th].pc = "assign"
    /\ access_logs' = [access_logs EXCEPT ![calls[th].user_id] = calls[th].kept]
    /\ calls' = [calls EXCEPT ![th].pc = "return"]
    /\ UNCHANGED << now, threat_database, alerts, appended, ret, windows,
                    checked >>
    /\ UNCHANGED upVars

\* lines 131-134: the call answers
CallReturn(th) ==
    /\ calls[th].pc = "return"
    /\ ret' = [ op |-> "monitor", user_id |-> calls[th].user_id,
                well_formed |-> TRUE, monitored |-> TRUE,
                suspicious_activities |-> calls[th].suspicious_activities,
                event |-> calls[th].event,
                inspected |-> calls[th].inspected,
                failure |-> NoFailure ]
    /\ calls' = [calls EXCEPT ![th] = IdleCall]
    /\ UNCHANGED << now, windows, checked >>
    /\ UNCHANGED svcShared
    /\ UNCHANGED upVars

(***************************************************************************)
(* Specifications                                                          *)
(***************************************************************************)
\* check_file_security applied to any file and any analysis
InitCheck ==
    \E file \in Files, a \in Analyses :
        /\ ret = [op |-> "input", file |-> file, analysis |-> a]
        /\ now = StartTime
        /\ access_logs = [u \in Users |-> << >>]
        /\ threat_database = << >>
        /\ alerts = << >>
        /\ windows = << >>
        /\ appended = [u \in Users |-> << >>]
        /\ up_id = 0
        /\ up_pc = "idle"
        /\ up_file = NoFile
        /\ up_analysis = NoAnalysis
        /\ up_verdict = FreshResult
        /\ up_status = 0
        /\ up_trace = << >>
        /\ storage = {}
        /\ calls = [th \in Threads |-> IdleCall]
        /\ checked = {}

NextCheck == CheckUpload

SpecCheck == InitCheck /\ [][NextCheck]_vars

\* upload requests, any file and any analysis
NextUpload ==
    \/ \E file \in Files : UploadReceive(file)
    \/ \E raises \in BOOLEAN, a \in Analyses : UploadAnalyze(raises, a)
    \/ UploadCheck
    \/ \E raises \in BOOLEAN : UploadStore(raises)
    \/ UploadReturn

SpecUpload == Init /\ [][NextUpload]_vars

\* one user's ledger under appends, reads and the passing of time
NextLedger ==
    \/ \E d \in {5, 6} : Tick(d, MaxElapsed)
    \/ \E t \in {"file_access", "login_failed"} :
           monitor_user_activity("alice", t, DetailsWith(NoneType), NoFailure)
    \/ get_user_threats("alice")
    \/ get_user_audit_log("alice")

SpecLedger == Init /\ [][NextLedger]_vars

\* failed and successful logins of one user over a little more than an hour
NextLogin ==
    \/ \E d \in {30, 31} : Tick(d, MaxElapsedLong)
    \/ \E t \in {"login_failed", "login_success"} :
           monitor_user_activity("alice", t, DetailsWith(NoneType), NoFailure)
    \/ get_user_threats("alice")
    \/ get_user_audit_log("alice")

SpecLogin == Init /\ [][NextLogin]_vars

\* addresses are interchangeable, so a request from an address not seen
\* before is taken to come from the first unused one
NextAddress(user_id, ip) ==
    LET used == { appended[user_id][i].ip_address :
                    i \in 1..Len(appended[user_id]) }
    IN  \/ ~IpTruthy(ip)
        \/ \E k \in 1..Len(RealIps) :
               /\ RealIps[k] = ip
               /\ \A j \in 1..(k - 1) : RealIps[j] \in used

\* one user's activity from several addresses, or from none
NextIps ==
    \/ \E d \in {10, 11} : Tick(d, MaxElapsed)
    \/ \E ip \in IpAddresses :
           /\ NextAddress("alice", ip)
           /\ monitor_user_activity("alice", "login_success", DetailsWith(ip),
                                    NoFailure)

SpecIps == Init /\ [][NextIps]_vars

\* file accesses of one user recorded by two threads at the same time
NextThreads ==
    \/ \E d \in {10, 11} : Tick(d, MaxElapsed)
    \/ \E th \in Threads :
           \/ CallAppend(th, "alice", "file_access", DetailsWith(NoneType))
           \/ CallInspect(th)
           \/ CallHandle(th)
           \/ CallTrimRead(th)
           \/ CallTrimAssign(th)
           \/ CallReturn(th)

SpecThreads == Init /\ [][NextThreads]_vars

\* the addresses each user's requests come from: two each, four in all
UserAddresses ==
    [ alice |-> { RealIps[1], RealIps[2] }, bob |-> { RealIps[3], RealIps[4] } ]

\* events appended so far, all users together
TotalAppended == Len(appended["alice"]) + Len(appended["bob"])

\* file accesses of two users in any order, and reads of their audit logs
NextUsers ==
    \/ \E d \in {10, 11} : Tick(d, MaxElapsed)
    \/ \E user_id \in Users : \E ip \in UserAddresses[user_id] :
           /\ TotalAppended < MaxAppends
           /\ monitor_user_activity(user_id, "file_access", DetailsWith(ip),
                                    NoFailure)
    \/ \E user_id \in Users : get_user_audit_log(user_id)

SpecUsers == Init /\ [][NextUsers]_vars

\* a plain text file and a file without extension
SampleFiles ==
    { [ readable |-> TRUE, size |-> 0,
        filename |-> Name(<<"a", ".", "t", "x", "t">>),
        content_type |-> "text/plain" ],
      [ readable |-> TRUE, size |-> 0,
        filename |-> Name(<<"r", "e", "a", "d", "m", "e">>),
        content_type |-> "text/plain" ] }

\* no analysis, and an analysis that reports sensitive data
SampleAnalyses ==
    { NoAnalysis,
      [ kind |-> "dict", sec |-> "dict", con |-> "dict", threat_level |-> "low",
        malware_indicators |-> << >>, compliance_issues |-> << >>,
        sensitive_data_detected |-> << "SSN-123" >> ] }

\* file checks made while one user's activity is recorded
NextMixed ==
    \/ \E d \in {10, 11} : Tick(d, MaxElapsed)
    \/ monitor_user_activity("alice", "login_success", DetailsWith(NoneType),
                             NoFailure)
    \/ \E file \in SampleFiles, a \in SampleAnalyses : CheckFile(file, a)

SpecMixed == Init /\ [][NextMixed]_vars

\* every failure the loop can meet: a call returns at most three findings
AnyFailure ==
    { NoFailure } \cup [ at : 1..3, stage : { "store", "alert" } ]

\* one user's activity from several addresses, the escalation failing or not
NextEscalation ==
    \/ \E d \in {10, 11} : Tick(d, MaxElapsed)
    \/ \E k \in 1..Len(RealIps), failure \in AnyFailure :
           /\ NextAddress("alice", RealIps[k])
           /\ monitor_user_activity("alice", "login_success",
                                    DetailsWith(RealIps[k]), failure)

SpecEscalation == Init /\ [][NextEscalation]_vars

\* one user's file accesses before and after 06:00, from several addresses
\* or from none, and calls whose details argument is None
NextRecord ==
    \/ \E d \in {30} : Tick(d, MaxElapsedLong)
    \/ \E ip \in IpAddresses \ {EmptyIp} :
           /\ NextAddress("alice", ip)
           /\ monitor_user_activity("alice", "file_access", DetailsWith(ip),
                                    NoFailure)
    \/ monitor_user_activity("alice", "file_access", NoDetailsArg, NoFailure)

SpecRecord == Init /\ [][NextRecord]_vars

\* failed logins of two users over more than an hour, and reads of their
\* threat summaries and audit logs
NextBrute ==
    \/ \E d \in {30, 31} : Tick(d, MaxElapsedLong)
    \/ \E user_id \in Users :
           /\ TotalAppended < MaxAppends
           /\ monitor_user_activity(user_id, "login_failed",
                                    DetailsWith(NoneType), NoFailure)
    \/ \E user_id \in Users : get_user_threats(user_id)
    \/ \E user_id \in Users : get_user_audit_log(user_id)

SpecBrute == Init /\ [][NextBrute]_vars

\* one evaluation of a file that is clean, one that has no extension or one
\* whose stream cannot be read, with every analysis
OrderFiles ==
    SampleFiles \cup { [ readable |-> FALSE, size |-> 0,
                         filename |-> Name(<<"a", ".", "t", "x", "t">>),
                         content_type |-> "text/plain" ] }

InitOrder == InitCheck /\ ret.file \in OrderFiles

NextOrder == CheckUpload

SpecOrder == InitOrder /\ [][NextOrder]_vars

(***************************************************************************)
(* Properties of check_file_security (SpecCheck)                           *)
(***************************************************************************)
Checked == ret.op = "check"

HasMalware(a) == Len(a.malware_indicators) > 0
HasSensitive(a) == Len(a.sensitive_data_detected) > 0
HasCompliance(a) == Len(a.compliance_issues) > 0

\* no file characteristic is flagged: the stream is readable, the size is
\* within the cap, the name has an extension, and an executable-like name
\* comes with the octet-stream content type
CleanFile(file) ==
    /\ file.readable
    /\ file.size <= MaxFileSize
    /\ file.filename.present
    /\ \E i \in 1..Len(file.filename.chars) : file.filename.chars[i] = "."
    /\ Contains(Lower(file.filename.chars), <<"e", "x", "e">>)
           => HasOctetStream(file.content_type)

\* C1 as stated: whenever the analysis has malware indicators, the verdict is
\* unsafe and its risk_score is exactly 1.0, whatever the other fields are.
C1_MalwareScoreIsOne ==
    (Checked /\ HasMalware(ret.analysis)) =>
        (ret.verdict.safe = FALSE /\ ret.verdict.risk_score = F10)

\* C1 amended: whenever the analysis has malware indicators, the verdict is
\* unsafe and its risk_score is 1.0 plus 0.2 if compliance issues are present
\* plus 0.4 if the file characteristics are suspicious (1.0 when the check
\* fails closed); the threat level and the sensitive data do not change it.
C1_MalwareOverridesPriorScore ==
    (Checked /\ HasMalware(ret.analysis)) =>
        /\ ret.verdict.safe = FALSE
        /\ FGe(ret.verdict.risk_score, F10)
        /\ ret.verdict.risk_score =
              IF ret.verdict.failed THEN F10
              ELSE IF HasCompliance(ret.analysis) /\ ~CleanFile(ret.file) THEN F16
              ELSE IF HasCompliance(ret.analysis) THEN F12
              ELSE IF ~CleanFile(ret.file) THEN F14
              ELSE F10

C1_Witness ==
    /\ Checked
    /\ HasMalware(ret.analysis)
    /\ ret.analysis.threat_level = "critical"
    /\ HasSensitive(ret.analysis)
    /\ HasCompliance(ret.analysis)
    /\ CleanFile(ret.file)
    /\ ret.verdict.risk_score = F12

\* C2: when a sub-check fails internally (a .get on a missing section of the
\* analysis, or the file-characteristic check raising on an unreadable stream
\* or a file without a filename), the verdict is the fail-closed one: unsafe,
\* risk_score 1.0, the single finding "Security check failed" and the single
\* recommendation "Manual review required".
C2_SubCheckFailureFailsClosed ==
    (Checked /\ (AnalysisRaises(ret.analysis) \/ FileChecksRaise(ret.file))) =>
        /\ ret.verdict.safe = FALSE
        /\ ret.verdict.risk_score = F10
        /\ ret.verdict.threats_detected = << [msg |-> "Security check failed"] >>
        /\ ret.verdict.recommendations = << "Manual review required" >>

\* C4: a verdict whose risk_score is >= 0.7 is unsafe, also when neither the
\* threat-level rule nor the malware rule fired: with a low threat level and
\* no malware, sensitive data + compliance issues + suspicious file scores
\* 0.9 and is unsafe, sensitive data + suspicious file scores exactly 0.7 and
\* is unsafe, and sensitive data + compliance issues scores 0.5 and is safe.
C4_ThresholdForcesUnsafe ==
    Checked =>
        /\ FGe(ret.verdict.risk_score, F07) => ret.verdict.safe = FALSE
        /\ ( /\ AnalysisPresent(ret.analysis)
             /\ ~AnalysisRaises(ret.analysis)
             /\ ret.analysis.threat_level = "low"
             /\ ~HasMalware(ret.analysis)
             /\ HasSensitive(ret.analysis) ) =>
               /\ (HasCompliance(ret.analysis) /\ ~CleanFile(ret.file)) =>
                      (ret.verdict.risk_score = F09 /\ ret.verdict.safe = FALSE)
               /\ (~HasCompliance(ret.analysis) /\ ~CleanFile(ret.file)) =>
                      (ret.verdict.risk_score = F07 /\ ret.verdict.safe = FALSE)
               /\ (HasCompliance(ret.analysis) /\ CleanFile(ret.file)) =>
                      (ret.verdict.risk_score = F05 /\ ret.verdict.safe = TRUE)

C4_Witness ==
    /\ Checked
    /\ ret.analysis.threat_level = "low"
    /\ ~HasMalware(ret.analysis)
    /\ HasSensitive(ret.analysis)
    /\ ~HasCompliance(ret.analysis)
    /\ ~CleanFile(ret.file)
    /\ ret.verdict.risk_score = F07
    /\ ret.verdict.safe = FALSE

\* C5: with no sensitive data, no malware indicators, no compliance issues,
\* a low or medium threat level and a file that is not suspicious, the
\* verdict has risk_score 0.0, is safe and carries no threat and no
\* recommendation.
C5_CleanInputIsSafe ==
    ( /\ Checked
      /\ ~AnalysisRaises(ret.analysis)
      /\ ~HasSensitive(ret.analysis)
      /\ ~HasMalware(ret.analysis)
      /\ ~HasCompliance(ret.analysis)
      /\ ret.analysis.threat_level \in {"low", "medium"}
      /\ CleanFile(ret.file) ) =>
        /\ ret.verdict.risk_score = F00
        /\ ret.verdict.safe = TRUE
        /\ ret.verdict.threats_detected = << >>
        /\ ret.verdict.recommendations = << >>

C5_Witness ==
    /\ Checked
    /\ ret.analysis.kind = "dict"
    /\ ret.analysis.sec = "dict"
    /\ ret.analysis.con = "dict"
    /\ ret.analysis.threat_level = "medium"
    /\ ~HasSensitive(ret.analysis)
    /\ ~HasMalware(ret.analysis)
    /\ ~HasCompliance(ret.analysis)
    /\ CleanFile(ret.file)
    /\ ret.verdict.safe = TRUE

\* C6: when sensitive data is the only signal (low threat level, no malware,
\* no compliance issues, file not suspicious), the verdict is safe with
\* risk_score 0.3, one threat message carrying the number of items, and the
\* encrypt recommendation as its only recommendation.
C6_SensitiveDataOnly ==
    ( /\ Checked
      /\ ~AnalysisRaises(ret.analysis)
      /\ HasSensitive(ret.analysis)
      /\ ret.analysis.threat_level = "low"
      /\ ~HasMalware(ret.analysis)
      /\ ~HasCompliance(ret.analysis)
      /\ CleanFile(ret.file) ) =>
        /\ ret.verdict.safe = TRUE
        /\ ret.verdict.risk_score = F03
        /\ ret.verdict.threats_detected =
               << [ msg |-> "Sensitive data detected",
                    count |-> Len(ret.analysis.sensitive_data_detected) ] >>
        /\ ret.verdict.recommendations = << EncryptRec >>

C6_Witness ==
    /\ Checked
    /\ ret.analysis.sensitive_data_detected = << "SSN-123" >>
    /\ ret.analysis.threat_level = "low"
    /\ ~HasMalware(ret.analysis)
    /\ ~HasCompliance(ret.analysis)
    /\ CleanFile(ret.file)
    /\ ret.verdict.risk_score = F03

(***************************************************************************)
(* Properties of the upload endpoint (SpecUpload)                          *)
(***************************************************************************)
Called(step) == \E i \in 1..Len(up_trace) : up_trace[i] = step

\* C3: file_service.upload_file is called only after the content analysis
\* and after check_file_security returned safe = true for the same upload;
\* an upload whose verdict is unsafe, or whose analysis raised, is rejected
\* and nothing is written to storage for it.
C3_StoreOnlyAfterSafeVerdict ==
    /\ Called("store") =>
           /\ up_trace = << "analyze", "check", "store" >>
           /\ up_verdict = check_file_security(up_file, up_analysis)
           /\ up_verdict.safe = TRUE
    /\ up_id \in storage => (Called("store") /\ up_status = 201)
    /\ (Called("check") /\ ~up_verdict.safe) =>
           (up_status = 403 /\ ~Called("store") /\ up_id \notin storage)
    /\ (up_status = 500 /\ ~Called("check")) =>
           (~Called("store") /\ up_id \notin storage)
    /\ up_status = 400 => (up_trace = << >> /\ up_id \notin storage)

C3_Witness ==
    /\ up_status = 201
    /\ up_id \in storage
    /\ up_verdict.safe = TRUE
    /\ up_verdict.risk_score = F05
    /\ storage = {2}

(***************************************************************************)
(* Properties of the activity ledger (SpecLedger)                          *)
(***************************************************************************)
Elements(seq) == { seq[i] : i \in 1..Len(seq) }

TimeOf(log) == fromisoformat(log.timestamp)

\* the last n events of a history (all of them if it has fewer)
LastAppended(history, n) ==
    { history[i] : i \in { j \in 1..Len(history) : j > Len(history) - n } }

\* C7: whatever appends and reads happened, a user's ledger holds at most
\* RetentionCap events, namely the most recently appended ones: eviction
\* removes the oldest event first.
C7_LedgerKeepsMostRecent ==
    \A u \in Users :
        /\ Len(access_logs[u]) <= RetentionCap
        /\ Elements(access_logs[u]) = LastAppended(appended[u], RetentionCap)

\* the list a windowed query of the last call scanned
ScannedBy(w) ==
    IF ret.op = "monitor" THEN ret.inspected ELSE access_logs[w.user_id]

\* C8: every windowed query returns exactly the user's events whose
\* timestamp is >= call time minus the window, none older, in the order in
\* which they were appended.
C8_WindowExactInAppendOrder ==
    \A i \in 1..Len(windows) :
        LET w == windows[i]
        IN  /\ Elements(w.result) =
                   { e \in Elements(ScannedBy(w)) : TimeOf(e) >= w.at - w.minutes }
            /\ \A e \in Elements(w.result) : e.user_id = w.user_id
            /\ \A j, k \in 1..Len(w.result) :
                   j < k => w.result[j].seq < w.result[k].seq

(***************************************************************************)
(* Properties of the anomaly rules (SpecLogin, SpecIps)                    *)
(***************************************************************************)
Monitored == ret.op = "monitor" /\ ret.monitored

\* failed logins in a list of events, not older than an hour at time t
FailedLoginsWithinHour(logs, t) ==
    { i \in 1..Len(logs) :
        /\ logs[i].activity_type = "login_failed"
        /\ TimeOf(logs[i]) >= t - OneHour }

BruteForceFindings(findings) ==
    { k \in 1..Len(findings) :
        findings[k].type \in {"brute_force_attempt", "brute_force"} }

C10_MultipleIpsExactlyAboveThree ==
    Monitored =>
        LET t == TimeOf(ret.event)
            ips == { e.ip_address : e \in
                       { x \in Elements(ret.inspected) :
                           /\ TimeOf(x) >= t - TenMinutes
                           /\ x.ip_address \notin {NoneType, EmptyIp} } }
            hits == { k \in 1..Len(ret.suspicious_activities) :
                        ret.suspicious_activities[k].type = "multiple_ips" }
        IN  /\ Cardinality(ips) > 3 =>
                   /\ Cardinality(hits) = 1
                   /\ \A k \in hits :
                          /\ ret.suspicious_activities[k].severity = "high"
                          /\ ret.suspicious_activities[k].evidence = Cardinality(ips)
            /\ Cardinality(ips) <= 3 => hits = {}

C10_Witness ==
    /\ Monitored
    /\ \E k \in 1..Len(ret.suspicious_activities) :
           /\ ret.suspicious_activities[k].type = "multiple_ips"
           /\ ret.suspicious_activities[k].evidence = 4
    /\ \E e \in Elements(ret.inspected) : e.ip_address = NoneType
    /\ \E e \in Elements(ret.inspected) :
           /\ TimeOf(e) < TimeOf(ret.event) - TenMinutes
           /\ IpTruthy(e.ip_address)

(***************************************************************************)
(* Properties of the rapid-access rule (SpecLedger)                        *)
(***************************************************************************)
FindingsOfType(findings, type) ==
    { k \in 1..Len(findings) : findings[k].type = type }

\* the file_access events of a list that are not older than 10 minutes at t
FileAccessesInWindow(logs, t) ==
    { i \in 1..Len(logs) :
        /\ logs[i].activity_type = "file_access"
        /\ TimeOf(logs[i]) >= t - TenMinutes }

\* C11: a RecordActivity call returns a rapid_file_access finding exactly
\* when the user's file_access events not older than 10 minutes, the new one
\* included, number more than RapidAccessLimit (20 in the code): the call
\* appending event number RapidAccessLimit + 1 of the window returns it, of
\* medium severity and carrying that number, and the calls before it do not;
\* file_access events older than 10 minutes and events of other activity
\* types do not count.
C11_RapidFileAccessAboveLimit ==
    Monitored =>
        LET n == Cardinality(FileAccessesInWindow(ret.inspected, TimeOf(ret.event)))
            hits == FindingsOfType(ret.suspicious_activities, "rapid_file_access")
        IN  /\ n > RapidAccessLimit =>
                   /\ Cardinality(hits) = 1
                   /\ \A k \in hits :
                          /\ ret.suspicious_activities[k].severity = "medium"
                          /\ ret.suspicious_activities[k].evidence = n
            /\ n <= RapidAccessLimit => hits = {}

\* the call appending file_access number RapidAccessLimit + 1 of the window
\* returns the finding while an older file_access event and a login_failed
\* event of the window are in the ledger
C11_Witness ==
    /\ Monitored
    /\ ret.event.activity_type = "file_access"
    /\ \E k \in FindingsOfType(ret.suspicious_activities, "rapid_file_access") :
           ret.suspicious_activities[k].evidence = RapidAccessLimit + 1
    /\ \E e \in Elements(ret.inspected) :
           /\ e.activity_type = "file_access"
           /\ TimeOf(e) < TimeOf(ret.event) - TenMinutes
    /\ \E e \in Elements(ret.inspected) :
           /\ e.activity_type = "login_failed"
           /\ TimeOf(e) >= TimeOf(ret.event) - TenMinutes

(***************************************************************************)
(* Properties of the escalation (SpecIps, SpecLedger)                      *)
(***************************************************************************)
HighFindings(findings) ==
    LET IsHigh(a) == a.severity = "high"
    IN  SelectSeq(findings, IsHigh)

\* a step in which a RecordActivity call appended its event
Recorded == appended' # appended

C13_OnlyHighFindingsPersisted ==
    [][ /\ (Recorded /\ HighFindings(ret'.suspicious_activities) = << >>) =>
               threat_database' = threat_database
        /\ \A id \in DOMAIN threat_database' :
               threat_database'[id].activity.severity = "high"
      ]_vars

(***************************************************************************)
(* Properties of the read operations (SpecLedger)                          *)
(***************************************************************************)
\* the registry records of a user
RecordsOf(db, user_id) == { id \in DOMAIN db : db[id].user_id = user_id }

\* an entry GetThreats returned stands for a registry record: same finding
\* type and same severity
Reports(entry, record) ==
    /\ entry.type = record.activity.type
    /\ entry.severity = record.activity.severity

\* C14: GetThreats(u) returns every record persisted in the registry for u
\* and no record of another user: each record of u has its entry in the
\* answer, and each entry of the answer stands for a record of u.
C14_GetThreatsListsRegistry ==
    ret.op = "threats" =>
        /\ \A id \in RecordsOf(threat_database, ret.user_id) :
               \E k \in 1..Len(ret.threats) :
                   Reports(ret.threats[k], threat_database[id])
        /\ \A k \in 1..Len(ret.threats) :
               \E id \in RecordsOf(threat_database, ret.user_id) :
                   Reports(ret.threats[k], threat_database[id])

(***************************************************************************)
(* Properties of concurrent recording (SpecThreads)                        *)
(***************************************************************************)
\* the threads whose call has inspected the ledger
Inspected == { th \in Threads : "inspected" \in DOMAIN calls[th] }

\* C15: the append and the inspection of one RecordActivity call are one
\* atomic unit: the list a call inspects ends with the event this call
\* appended, no event of another call of the same user having been appended
\* in between; so of two concurrent calls no two report the same count of
\* file accesses.
C15_AppendAndInspectAtomic ==
    /\ \A th \in Inspected :
           LET seen == calls[th].inspected
           IN  seen # << >> /\ seen[Len(seen)] = calls[th].event
    /\ \A th1, th2 \in Inspected :
           ( /\ th1 # th2
             /\ calls[th1].user_id = calls[th2].user_id
             /\ FindingsOfType(calls[th1].suspicious_activities,
                               "rapid_file_access") # {} ) =>
               \A k1 \in FindingsOfType(calls[th1].suspicious_activities,
                                         "rapid_file_access") :
               \A k2 \in FindingsOfType(calls[th2].suspicious_activities,
                                         "rapid_file_access") :
                   calls[th1].suspicious_activities[k1].evidence #
                       calls[th2].suspicious_activities[k2].evidence

(***************************************************************************)
(* Properties of the separation of users (SpecUsers)                       *)
(***************************************************************************)
\* the ledger in which only the given list of the given user exists
OwnLedger(user_id, user_logs) ==
    [ v \in Users |-> IF v = user_id THEN user_logs ELSE << >> ]

AllEvents == UNION { Elements(access_logs[v]) : v \in Users }

\* C16: a RecordActivity call for user A leaves the ledger of every other
\* user unchanged, and its findings are those the rules give on A's own list
\* alone: whatever other users recorded, in any order of the calls, their
\* file accesses and their addresses do not count towards A's thresholds.
C16_UsersAreIndependent ==
    [][ Recorded =>
            LET u == ret'.user_id
            IN  /\ \A v \in Users \ {u} : access_logs'[v] = access_logs[v]
                /\ \A e \in Elements(ret'.inspected) : e.user_id = u
                /\ ret'.suspicious_activities =
                       _detect_suspicious_patterns(
                           OwnLedger(u, ret'.inspected), u, TimeOf(ret'.event))
      ]_vars

\* a call for alice returns neither rapid_file_access nor multiple_ips while
\* the events of the last 10 minutes of both users together number more than
\* RapidAccessLimit file accesses and come from 4 addresses
C16_Witness ==
    /\ Monitored
    /\ ret.user_id = "alice"
    /\ FindingsOfType(ret.suspicious_activities, "rapid_file_access") = {}
    /\ FindingsOfType(ret.suspicious_activities, "multiple_ips") = {}
    /\ access_logs["bob"] # << >>
    /\ LET recent == { e \in AllEvents :
                         TimeOf(e) >= TimeOf(ret.event) - TenMinutes }
       IN  /\ Cardinality(recent) > RapidAccessLimit
           /\ Cardinality({ e.ip_address : e \in recent }) = 4

(***************************************************************************)
(* Properties of check_file_security among other operations (SpecMixed)    *)
(***************************************************************************)
SameInput(x, y) == x.file = y.file /\ x.analysis = y.analysis

\* C17: check_file_security is a function of (file, analysis) alone: any two
\* calls with the same arguments returned the same verdict, whatever was
\* recorded in between and whatever the ledger and the registry held; and a
\* call leaves every user's ledger, the registry and the alerts as they were.
C17_CheckIsPure ==
    [][ (ret'.op = "check" /\ (ret' # ret \/ checked' # checked)) =>
            /\ access_logs' = access_logs
            /\ threat_database' = threat_database
            /\ alerts' = alerts
            /\ \A x, y \in checked' : SameInput(x, y) => x.verdict = y.verdict
      ]_vars

\* the same file and analysis were checked with the registry empty and again
\* after activity had been recorded and threat records stored
C17_Witness ==
    /\ ret.op = "check"
    /\ access_logs["alice"] # << >>
    /\ \E x, y \in checked :
           /\ SameInput(x, y)
           /\ x.registry_empty /\ ~y.registry_empty
           /\ x.verdict = y.verdict
           /\ x.verdict.risk_score = F07

(***************************************************************************)
(* Properties of a failing escalation (SpecEscalation)                     *)
(***************************************************************************)
\* C18: when storing a threat record or sending an alert fails during the
\* escalation, the RecordActivity call still succeeds: it answers
\* monitored = true with the complete list of findings the rules give, and
\* its event is the last one of the user's ledger.
C18_EscalationFailureSwallowed ==
    [][ (Recorded /\ ret'.failure # NoFailure) =>
            LET u == ret'.user_id
                user_logs == access_logs'[u]
            IN  /\ ret'.monitored = TRUE
                /\ ret'.suspicious_activities # << >>
                /\ ret'.suspicious_activities =
                       _detect_suspicious_patterns(
                           OwnLedger(u, ret'.inspected), u, TimeOf(ret'.event))
                /\ user_logs # << >>
                /\ user_logs[Len(user_logs)] = ret'.event
                /\ appended'[u] = Append(appended[u], ret'.event)
      ]_vars

\* the alert of a multiple_ips finding failed: the record of the finding is
\* stored, no alert was sent, the low finding after it was not stored, and
\* the call returned both findings
C18_Witness ==
    /\ Monitored
    /\ ret.failure = [at |-> 1, stage |-> "alert"]
    /\ Len(ret.suspicious_activities) = 2
    /\ ret.suspicious_activities[1].type = "multiple_ips"
    /\ alerts = << >>
    /\ ThreatId(ret.user_id, "multiple_ips", TimeOf(ret.event))
           \in DOMAIN threat_database
    /\ ThreatId(ret.user_id, "unusual_time_access", TimeOf(ret.event))
           \notin DOMAIN threat_database
    /\ ret.event \in Elements(access_logs[ret.user_id])

(***************************************************************************)
(* Properties of the audit log (SpecUsers, SpecLedger)                     *)
(***************************************************************************)
\* an audit entry renders an event of the ledger
Renders(entry, e) ==
    /\ entry.seq = e.seq
    /\ entry.timestamp = e.timestamp
    /\ entry.activity_type = e.activity_type
    /\ entry.ip_address = e.ip_address

\* C19: GetAuditLog(u) returns one entry for each event now in u's ledger
\* and no entry for an event of another user, the timestamps never
\* increasing from one entry to the next; for a user without recorded
\* activity the answer is empty.
C19_AuditLogMostRecentFirst ==
    ret.op = "audit" =>
        LET u == ret.user_id
            log == ret.audit_log
        IN  /\ Len(log) = Len(access_logs[u])
            /\ \A e \in Elements(access_logs[u]) :
                   Cardinality({ k \in 1..Len(log) : Renders(log[k], e) }) = 1
            /\ \A k \in 1..Len(log) :
                   /\ \E e \in Elements(access_logs[u]) :
                          e.user_id = u /\ Renders(log[k], e)
                   /\ \A v \in Users \ {u} :
                          \A e \in Elements(access_logs[v]) : ~Renders(log[k], e)
            /\ \A j, k \in 1..Len(log) :
                   j < k => fromisoformat(log[j].timestamp)
                               >= fromisoformat(log[k].timestamp)
            /\ appended[u] = << >> => log = << >>

\* the audit log of a user with three events or more, of two different
\* times, the last appended one first, while the other user has events too
C19_Witness ==
    /\ ret.op = "audit"
    /\ Len(ret.audit_log) >= 3
    /\ Cardinality({ ret.audit_log[k].timestamp :
                       k \in 1..Len(ret.audit_log) }) = 2
    /\ ret.audit_log[1].seq = Len(appended[ret.user_id])
    /\ \E v \in Users \ {ret.user_id} : access_logs[v] # << >>

\* C20: GetAuditLog and GetThreats are read-only: a call of either leaves
\* every user's ledger, the events and their order, and the registry exactly
\* as they were before the call.
C20_ReadsChangeNothing ==
    [][ (ret'.op \in {"audit", "threats"} /\ ret' # ret) =>
            /\ access_logs' = access_logs
            /\ threat_database' = threat_database
      ]_vars

(***************************************************************************)
(* Properties of the threat registry (SpecLedger)                          *)
(***************************************************************************)
\* C21: no threat record is ever lost: every record of the registry is still
\* there, unchanged, after any step; and every finding a call stores gets a
\* record and an id of its own, so the registry grows by one record for each
\* finding stored, also when an earlier detection had the same user, the
\* same finding type and the same timestamp.
C21_NoRecordLost ==
    [][ /\ \A id \in DOMAIN threat_database :
               /\ id \in DOMAIN threat_database'
               /\ threat_database'[id] = threat_database[id]
        /\ (Recorded /\ ret'.monitored /\ ret'.failure = NoFailure) =>
               Cardinality(DOMAIN threat_database') =
                   Cardinality(DOMAIN threat_database)
                       + Len(ret'.suspicious_activities)
      ]_vars

(***************************************************************************)
(* Properties of the recording itself (SpecRecord)                         *)
(***************************************************************************)
\* a step in which a RecordActivity call answered
Answered == ret'.op = "monitor" /\ ret' # ret

Severities(findings) == { findings[k].severity : k \in 1..Len(findings) }

\* C22: every RecordActivity call with well-formed details appends its event
\* to the user's ledger, where it is the last event when the call returns,
\* and answers monitored = true with the findings the rules give, whether
\* these are none, low, medium or high.
C22_RecordingNeverBlocked ==
    [][ (Answered /\ ret'.well_formed) =>
            LET u == ret'.user_id
                user_logs == access_logs'[u]
            IN  /\ ret'.monitored = TRUE
                /\ appended'[u] = Append(appended[u], ret'.event)
                /\ user_logs # << >>
                /\ user_logs[Len(user_logs)] = ret'.event
                /\ ret'.suspicious_activities =
                       _detect_suspicious_patterns(
                           OwnLedger(u, ret'.inspected), u, TimeOf(ret'.event))
      ]_vars

\* after 06:00 a call returned a medium and a high finding and no low one,
\* and its event is in the ledger; an earlier call had returned a low one
C22_Witness ==
    /\ Monitored
    /\ Severities(ret.suspicious_activities) = { "medium", "high" }
    /\ ret.event \in Elements(access_logs[ret.user_id])
    /\ \E id \in DOMAIN threat_database :
           threat_database[id].activity.severity = "low"

\* C30: a RecordActivity call whose details argument is not a map answers
\* monitored = false with an error and without findings, and leaves every
\* ledger, the registry and the alerts as they were: nothing is appended.
C30_MalformedDetailsRejected ==
    [][ (Answered /\ ~ret'.well_formed) =>
            /\ ret'.monitored = FALSE
            /\ "error" \in DOMAIN ret'
            /\ "suspicious_activities" \notin DOMAIN ret'
            /\ access_logs' = access_logs
            /\ appended' = appended
            /\ threat_database' = threat_database
            /\ alerts' = alerts
      ]_vars

\* a call with details = None was refused while the ledger held events and
\* the registry held records
C30_Witness ==
    /\ ret.op = "monitor"
    /\ ~ret.well_formed
    /\ ~ret.monitored
    /\ Len(access_logs[ret.user_id]) >= 2
    /\ Len(appended[ret.user_id]) = Len(access_logs[ret.user_id])
    /\ DOMAIN threat_database # {}

(***************************************************************************)
(* Properties of the brute-force summary (SpecBrute)                       *)
(***************************************************************************)
\* the login_failed events of the ledger of u stamped in the hour before t
FailedInHour(u, t) ==
    { e \in Elements(access_logs[u]) :
        /\ e.user_id = u
        /\ e.activity_type = "login_failed"
        /\ TimeOf(e) >= t - OneHour }

BruteForceEntries(threats) ==
    { k \in 1..Len(threats) : threats[k].type = "brute_force_attempt" }

\* C23: GetThreats(u) contains a brute_force_attempt entry, high-severity
\* and recommending the account lock, exactly when the ledger of u holds at
\* least 5 login_failed events stamped in the trailing hour at call time;
\* older events and events of other users do not count.
C23_BruteForceEntryFollowsWindow ==
    ret.op = "threats" =>
        LET hits == BruteForceEntries(ret.threats)
        IN  /\ (hits # {}) <=>
                   (Cardinality(FailedInHour(ret.user_id, ret.at))
                        >= max_login_attempts)
            /\ \A k \in hits :
                   /\ ret.threats[k].severity = "high"
                   /\ \E j \in 1..Len(ret.threats[k].recommendations) :
                          ret.threats[k].recommendations[j]
                              = "Account temporarily locked"

\* GetThreats finds no entry for a user whose ledger holds four failed logins
\* of the last hour and an older one, while the other user has one too
C23_Witness ==
    /\ ret.op = "threats"
    /\ ret.at = now
    /\ BruteForceEntries(ret.threats) = {}
    /\ Cardinality(FailedInHour(ret.user_id, now)) = max_login_attempts - 1
    /\ \E e \in Elements(access_logs[ret.user_id]) :
           /\ e.activity_type = "login_failed"
           /\ TimeOf(e) < now - OneHour
    /\ \E u \in Users \ {ret.user_id} : FailedInHour(u, now) # {}

(***************************************************************************)
(* Properties of the order of the rules (SpecOrder)                        *)
(***************************************************************************)
\* the order in which check_file_security applies its rules
CodeOrder == << 1, 2, 3, 4, 5 >>

\* every order of the five rules
Orders == { o \in [1..5 -> 1..5] : \A i, j \in 1..5 : o[i] = o[j] => i = j }

\* rule n of the evaluator applied to the running result
ApplyRule(n, r, file, a) ==
    CASE n = 1 -> IF AnalysisPresent(a) THEN ThreatLevelRule(r, a) ELSE r
      [] n = 2 -> IF AnalysisPresent(a) THEN SensitiveDataRule(r, a) ELSE r
      [] n = 3 -> IF AnalysisPresent(a) THEN MalwareRule(r, a) ELSE r
      [] n = 4 -> IF AnalysisPresent(a) THEN ComplianceRule(r, a) ELSE r
      [] n = 5 -> FileCharacteristicsRule(r, file)

RECURSIVE ApplyRules(_, _, _, _, _)
ApplyRules(order, k, r, file, a) ==
    IF k > Len(order) THEN r
    ELSE ApplyRules(order, k + 1, ApplyRule(order[k], r, file, a), file, a)

\* the evaluation with the rules taken in the given order
EvaluateInOrder(order, file, a) ==
    IF AnalysisRaises(a) THEN FailClosed
    ELSE Recommend(FinalStatus(ApplyRules(order, 1, FreshResult, file, a)))

\* the rules that change the result for this input
Firing(file, a) ==
    { n \in 1..5 : ApplyRule(n, FreshResult, file, a).threats_detected # << >> }

\* rules 1 and 3 assign the score, rules 2, 4 and 5 add to it
Assigning == { 1, 3 }
Adding == { 2, 4, 5 }

\* C24 as stated: whatever the order of the five rules, the final risk_score
\* and the safe flag are those of the evaluation in the order of the code.
C24_OrderChangesNeitherScoreNorFlag ==
    Checked =>
        \A o \in Orders :
            LET v == EvaluateInOrder(o, ret.file, ret.analysis)
            IN  /\ v.risk_score = ret.verdict.risk_score
                /\ v.safe = ret.verdict.safe

\* C24 amended: whatever the order of the five rules, the safe flag and the
\* messages of threats_detected (up to their order) are the same; the
\* risk_score depends on the order exactly when a rule that assigns the score
\* (threat level, malware) fires together with another rule, or when the
\* three adding rules (sensitive data, compliance issues, file
\* characteristics) all fire, whose sum is rounded differently.
C24_OrderChangesOnlyScore ==
    Checked =>
        LET file == ret.file
            a == ret.analysis
            firing == Firing(file, a)
            sensitive ==
                ~AnalysisRaises(a) /\
                    \/ firing \cap Assigning # {} /\ Cardinality(firing) >= 2
                    \/ Adding \subseteq firing
        IN  /\ EvaluateInOrder(CodeOrder, file, a) = ret.verdict
            /\ \A o \in Orders :
                   LET v == EvaluateInOrder(o, file, a)
                   IN  /\ v.safe = ret.verdict.safe
                       /\ Elements(v.threats_detected)
                              = Elements(ret.verdict.threats_detected)
                       /\ Len(v.threats_detected)
                              = Len(ret.verdict.threats_detected)
            /\ sensitive <=>
                   \E o \in Orders :
                       EvaluateInOrder(o, file, a).risk_score
                           # ret.verdict.risk_score

\* an input on which only the three adding rules fire and another order of
\* the rules gives another score than the order of the code
C24_Witness ==
    /\ Checked
    /\ ~ret.verdict.failed
    /\ Firing(ret.file, ret.analysis) = Adding
    /\ \E o \in Orders :
           EvaluateInOrder(o, ret.file, ret.analysis).risk_score
               # ret.verdict.risk_score

(***************************************************************************)
(* Properties of the recommendations (SpecCheck)                           *)
(***************************************************************************)
\* the evaluation returned from the try block, not from the except branch
Evaluated == Checked /\ ~ret.verdict.failed

\* the last n entries of a sequence
Tail3(seq) == SubSeq(seq, Len(seq) - 2, Len(seq))

\* C25: on every evaluation that is not fail-closed, the recommendations end
\* with manual review, additional scanning, restrict access, in that order
\* and after any encrypt recommendation, exactly when the verdict is unsafe,
\* whichever rule made it so; a safe verdict has none of the three.
C25_UnsafeVerdictGetsFixedAdvice ==
    Evaluated =>
        LET recs == ret.verdict.recommendations
            fixed == { i \in 1..Len(recs) : recs[i] \in Elements(UnsafeRecs) }
        IN  /\ ~ret.verdict.safe =>
                   /\ Len(recs) >= 3
                   /\ Tail3(recs) = UnsafeRecs
                   /\ fixed = (Len(recs) - 2)..Len(recs)
                   /\ \A i \in 1..(Len(recs) - 3) : recs[i] = EncryptRec
            /\ ret.verdict.safe => fixed = {}

\* an evaluation made unsafe by the threshold alone, sensitive data and a
\* suspicious file giving 0.7: the encrypt recommendation, then the three
C25_Witness ==
    /\ Evaluated
    /\ ~HasMalware(ret.analysis)
    /\ ret.analysis.threat_level \notin {"high", "critical"}
    /\ ret.verdict.risk_score = F07
    /\ ret.verdict.recommendations = << EncryptRec >> \o UnsafeRecs

(***************************************************************************)
(* Properties of the verdict as a whole (SpecCheck)                        *)
(***************************************************************************)
\* C27: every verdict of check_file_security, the fail-closed one included,
\* is safe if and only if its risk_score is below 0.7.
C27_SafeIffBelowThreshold ==
    Checked => (ret.verdict.safe <=> ~FGe(ret.verdict.risk_score, F07))

\* a safe verdict with a score of 0.5 or more, and the fail-closed verdict
\* is reachable for the same file
C27_Witness ==
    /\ Checked
    /\ ret.verdict.safe
    /\ FGe(ret.verdict.risk_score, F05)
    /\ \E a \in Analyses : check_file_security(ret.file, a).failed

\* C28: without an analysis (None or an empty dict) only the file rule
\* contributes: the score is 0.0, or 0.4 for a file flagged suspicious, and
\* the verdict is safe for every file.
C28_NoAnalysisIsAlwaysSafe ==
    (Checked /\ ~AnalysisPresent(ret.analysis)) =>
        /\ ret.verdict.safe
        /\ ~ret.verdict.failed
        /\ ret.verdict.risk_score \in { F00, F04 }
        /\ (ret.verdict.risk_score = F04)
               <=> _perform_file_security_checks(ret.file).suspicious
        /\ ret.verdict.recommendations = << >>

\* a suspicious file evaluated without analysis: 0.4 and safe
C28_Witness ==
    /\ Checked
    /\ ret.analysis \in { NoAnalysis, EmptyAnalysis }
    /\ ret.verdict.risk_score = F04
    /\ ret.verdict.safe
    /\ Len(ret.verdict.threats_detected) = 1

(***************************************************************************)
(* Properties of the suspicious mark (SpecLedger)                          *)
(***************************************************************************)
\* the entries of a threat summary that count suspicious activities
SuspiciousEntries(threats) ==
    { k \in 1..Len(threats) : threats[k].type = "suspicious_activity" }

\* the events of the ledger of u, not older than 24 hours at time t, whose
\* own timestamp made the unusual-time rule return a finding
FoundUnusual(u, t) ==
    { e \in Elements(access_logs[u]) :
        /\ TimeOf(e) >= t - OneDay
        /\ UnusualTimeRule(TimeOf(e)) # << >> }

\* C26: when a RecordActivity call returned a finding, its event is marked
\* suspicious in the ledger, and GetThreats within the following 24 hours
\* has a suspicious_activity entry counting the retained events for which
\* findings were returned.
C26_FindingsMarkTheEvent ==
    /\ (Monitored /\ ret.suspicious_activities # << >>) =>
           \A e \in Elements(access_logs[ret.user_id]) :
               e.seq = ret.event.seq => GetSuspicious(e)
    /\ (ret.op = "threats" /\ FoundUnusual(ret.user_id, ret.at) # {}) =>
           \E k \in SuspiciousEntries(ret.threats) :
               ret.threats[k].count
                   >= Cardinality(FoundUnusual(ret.user_id, ret.at))

(***************************************************************************)
(* Properties of the concurrent trimming (SpecThreads)                     *)
(***************************************************************************)
AllCallsComplete == \A th \in Threads : calls[th].pc = "idle"

\* C29: after all concurrent RecordActivity calls of a user have completed,
\* the ledger holds every appended event except the oldest ones evicted by
\* the retention cap, and no more events than the cap.
C29_NoAppendLostToTrim ==
    AllCallsComplete =>
        \A u \in Users :
            /\ Len(access_logs[u]) <= RetentionCap
            /\ Elements(access_logs[u]) = LastAppended(appended[u], RetentionCap)

====
